---- MODULE Spec2Model ----
(***************************************************************************)
(* A model of the Prometheus remote-write exporter of remotewrite.go:      *)
(* the scheduler loop RemoteWrite, the series builder                      *)
(* createSnappyWithMetricFamily and the delivery sendToRemoteWrite.        *)
(***************************************************************************)
EXTENDS Integers, Sequences, FiniteSets, TLC

(***************************************************************************)
(* Bounds of the model.                                                    *)
(***************************************************************************)
\* The clock stops after this many ticker intervals.
MaxTime == 3
\* Metrics plus labels of a snapshot handed directly to the series builder.
MaxSize == 3
\* Metrics plus labels of a snapshot returned by the gatherer in the loop.
MaxGather == 1
\* Intervals that may elapse during a direct call of the series builder.
MaxCallTime == 1
\* Requests the example's HTTP server serves at the same time.
MaxInflight == 1

(***************************************************************************)
(* The snapshot model (client_model): MetricFamily, Metric, LabelPair.     *)
(***************************************************************************)
\* The five metric types the switch of createSnappyWithMetricFamily knows.
KnownTypes == {"COUNTER", "GAUGE", "UNTYPED", "SUMMARY", "HISTOGRAM"}

\* MetricType of client_model v0.6.0 also has GAUGE_HISTOGRAM, which the
\* switch does not list.
MetricTypes == KnownTypes \cup {"GAUGE_HISTOGRAM"}

\* Family names; a gatherer returns families sorted by name, each name once.
FamilyNames == <<"rq", "up">>

LabelPairs == {[Name |-> "a", Value |-> "x"], [Name |-> "b", Value |-> "y"]}

\* A value payload. A nil message is the record of zeros: the Go getters
\* (GetCounter().GetValue(), ...) return 0 on a nil receiver.
NoPayload ==
  [Counter |-> [Value |-> 0], Gauge |-> [Value |-> 0], Untyped |-> [Value |-> 0],
   Summary |-> [SampleSum |-> 0, SampleCount |-> 0],
   Histogram |-> [SampleSum |-> 0, SampleCount |-> 0]]

\* The payload a registry produces for a family of type t: only the message
\* of that type is set (a gauge histogram carries a Histogram message).
OnlyPayload(t) ==
  CASE t = "COUNTER" -> [NoPayload EXCEPT !.Counter = [Value |-> 1]]
    [] t = "GAUGE" -> [NoPayload EXCEPT !.Gauge = [Value |-> 1]]
    [] t = "UNTYPED" -> [NoPayload EXCEPT !.Untyped = [Value |-> 1]]
    [] t = "SUMMARY" ->
         [NoPayload EXCEPT !.Summary = [SampleSum |-> 1, SampleCount |-> 2]]
    [] OTHER ->
         [NoPayload EXCEPT !.Histogram = [SampleSum |-> 1, SampleCount |-> 2]]

\* A Metric with every message set, each to a different number.
FullPayload ==
  [Counter |-> [Value |-> 1], Gauge |-> [Value |-> 2], Untyped |-> [Value |-> 3],
   Summary |-> [SampleSum |-> 4, SampleCount |-> 5],
   Histogram |-> [SampleSum |-> 6, SampleCount |-> 7]]

Payloads(t) == {OnlyPayload(t), FullPayload}

LabelSeqs(n) == UNION {[1..k -> LabelPairs] : k \in 0..n}

MetricSize(mm) == 1 + Len(mm.Label)

\* The metrics of at most b metrics-plus-labels a family of type t may hold.
MetricsOf(t, b) ==
  IF b < 1 THEN {}
  ELSE {[Label |-> l, Value |-> p] : l \in LabelSeqs(b - 1), p \in Payloads(t)}

RECURSIVE MetricLists(_, _)
MetricLists(t, b) ==
  {<<>>} \cup
    UNION {{<<mm>> \o rest : rest \in MetricLists(t, b - MetricSize(mm))} :
             mm \in MetricsOf(t, b)}

RECURSIVE ListSize(_)
ListSize(ml) == IF ml = <<>> THEN 0 ELSE MetricSize(Head(ml)) + ListSize(Tail(ml))

\* The snapshots whose families are named FamilyNames[from..], in that order,
\* each name at most once, with at most b metrics plus labels in all.
RECURSIVE SnapshotsFrom(_, _)
SnapshotsFrom(from, b) ==
  {<<>>} \cup
    UNION {UNION {{<<[Name |-> FamilyNames[i], Type |-> t, Metric |-> ml]>> \o rest :
                     rest \in SnapshotsFrom(i + 1, b - ListSize(ml))} :
                  ml \in MetricLists(t, b)} :
           i \in from..Len(FamilyNames), t \in MetricTypes}

\* The inputs of a direct call of createSnappyWithMetricFamily.
Snapshots == SnapshotsFrom(1, MaxSize)

\* The outputs of prometheus.DefaultGatherer.Gather() in the loop.
GatherSnapshots == SnapshotsFrom(1, MaxGather)

\* The destination URLs a caller passes: one http.NewRequest parses, one it
\* rejects.
ValidURL == "http://remote/api/v1/write"

URLs == {ValidURL, "http://re mote"}

\* Response statuses of the endpoint; http.StatusOK is 200.
StatusOK == 200

Statuses == {200, 204, 503}

(***************************************************************************)
(* The state of one process running RemoteWrite.                           *)
(***************************************************************************)
VARIABLES
  pc,         \* where the goroutine of RemoteWrite stands
  tickC,      \* number of ticks buffered in ticker.C (capacity 1)
  now,        \* the clock, in ticker intervals
  started,    \* iterations started so far
  clocked,    \* whether the clock and the iteration count are recorded
  url,        \* remoteWriteURL
  running,    \* pipeline iterations in progress
  failure,    \* which log.Fatalf ended the process, "none" while it lives
  m,          \* the gathered families (createSnappyWithMetricFamily's mfs)
  ts,         \* createSnappyWithMetricFamily: the series built so far
  tStamp,     \* createSnappyWithMetricFamily: the capture timestamp
  fi,         \* createSnappyWithMetricFamily: index of the family in turn
  mi,         \* createSnappyWithMetricFamily: index of the metric in turn
  wr,         \* the WriteRequest returned by createSnappyWithMetricFamily
  data,       \* proto.Marshal(wr)
  buf,        \* the snappy-encoded payload
  request,    \* the HTTP requests sent in this iteration, in order
  resp,       \* the response status, 0 while there is none
  bodyOpen,   \* whether resp.Body is open
  closes,     \* calls of resp.Body.Close() in this iteration
  bgPc,       \* example: where periodicBackgroundTask stands
  inflight    \* example: requests the HTTP handlers are serving

vars ==
  <<pc, tickC, now, started, clocked, url, running, failure, m, ts, tStamp, fi, mi,
    wr, data, buf, request, resp, bodyOpen, closes, bgPc, inflight>>

sched == <<tickC, now, started, running>>

\* The goroutines of the example program that run next to RemoteWrite.
app == <<bgPc, inflight>>

\* What the goroutine of RemoteWrite never writes: its parameters and the
\* state of the other goroutines of the process.
config == <<clocked, url, app>>

builder == <<ts, tStamp, fi, mi>>

payload == <<wr, data, buf>>

http == <<request, resp, bodyOpen, closes>>

(***************************************************************************)
(* The series builder's per-metric body.                                   *)
(***************************************************************************)
\* A variant that appends __name__ after the metric's own labels.
LabelsNameLast(mf, mm) ==
  [i \in 1..Len(mm.Label) |->
     [Name |-> mm.Label[i].Name, Value |-> mm.Label[i].Value]] \o
    <<[Name |-> "__name__", Value |-> mf.Name]>>

\* Lines 41-49: __name__ first, then the metric's labels in their order.
Labels(mf, mm) ==
  <<[Name |-> "__name__", Value |-> mf.Name]>> \o
    [i \in 1..Len(mm.Label) |->
       [Name |-> mm.Label[i].Name, Value |-> mm.Label[i].Value]]

\* A variant whose Summary case reads the sample count.
SampleValueSummaryCount(t, mm) ==
  CASE t = "COUNTER" -> mm.Value.Counter.Value
    [] t = "GAUGE" -> mm.Value.Gauge.Value
    [] t = "UNTYPED" -> mm.Value.Untyped.Value
    [] t = "SUMMARY" -> mm.Value.Summary.SampleCount
    [] t = "HISTOGRAM" -> mm.Value.Histogram.SampleSum

\* Lines 53-63: the switch on *mf.Type.
SampleValue(t, mm) ==
  CASE t = "COUNTER" -> mm.Value.Counter.Value
    [] t = "GAUGE" -> mm.Value.Gauge.Value
    [] t = "UNTYPED" -> mm.Value.Untyped.Value
    [] t = "SUMMARY" -> mm.Value.Summary.SampleSum
    [] t = "HISTOGRAM" -> mm.Value.Histogram.SampleSum

\* A variant whose sample slice already holds a sample when the metric's is
\* appended.
TimeSeriesOfTwoSamples(mf, mm, stamp) ==
  [Labels |-> Labels(mf, mm),
   Samples |-> <<[Value |-> 0, Timestamp |-> stamp],
                 [Value |-> SampleValue(mf.Type, mm), Timestamp |-> stamp]>>]

\* Lines 69-77: one TimeSeries with one sample.
TimeSeriesOf(mf, mm, stamp) ==
  [Labels |-> Labels(mf, mm),
   Samples |-> <<[Value |-> SampleValue(mf.Type, mm), Timestamp |-> stamp]>>]

(***************************************************************************)
(* The wire codec: proto.Marshal of prompb.WriteRequest as a sequence of   *)
(* tokens, and snappy.Encode.                                              *)
(***************************************************************************)
Tag(n) == [k |-> "tag", n |-> n, s |-> ""]

LenTok(n) == [k |-> "len", n |-> n, s |-> ""]

Num(n) == [k |-> "num", n |-> n, s |-> ""]

Str(s) == [k |-> "str", n |-> 0, s |-> s]

\* A length-delimited field.
Delimited(field, body) == <<Tag(field), LenTok(Len(body))>> \o body

\* A variant that writes the label's name and value under each other's
\* field number.
MarshalLabelSwapped(l) ==
  (IF l.Name = "" THEN <<>> ELSE <<Tag(2), Str(l.Name)>>) \o
  (IF l.Value = "" THEN <<>> ELSE <<Tag(1), Str(l.Value)>>)

\* proto3: a field holding its zero value is not written.
MarshalLabel(l) ==
  (IF l.Name = "" THEN <<>> ELSE <<Tag(1), Str(l.Name)>>) \o
  (IF l.Value = "" THEN <<>> ELSE <<Tag(2), Str(l.Value)>>)

MarshalSample(sm) ==
  (IF sm.Value = 0 THEN <<>> ELSE <<Tag(1), Num(sm.Value)>>) \o
  (IF sm.Timestamp = 0 THEN <<>> ELSE <<Tag(2), Num(sm.Timestamp)>>)

RECURSIVE MarshalLabels(_)
MarshalLabels(ls) ==
  IF ls = <<>> THEN <<>>
  ELSE Delimited(1, MarshalLabel(Head(ls))) \o MarshalLabels(Tail(ls))

RECURSIVE MarshalSamples(_)
MarshalSamples(ss) ==
  IF ss = <<>> THEN <<>>
  ELSE Delimited(2, MarshalSample(Head(ss))) \o MarshalSamples(Tail(ss))

MarshalTimeSeries(t) == MarshalLabels(t.Labels) \o MarshalSamples(t.Samples)

RECURSIVE MarshalSeries(_)
MarshalSeries(tss) ==
  IF tss = <<>> THEN <<>>
  ELSE Delimited(1, MarshalTimeSeries(Head(tss))) \o MarshalSeries(Tail(tss))

Marshal(w) == MarshalSeries(w.Timeseries)

\* snappy.Encode(nil, src): the uncompressed length, then the blocks; an
\* input this short is emitted as one literal.
SnappyEncode(src) ==
  <<[k |-> "ulen", n |-> Len(src), s |-> ""]>> \o
    (IF src = <<>> THEN <<>> ELSE <<[k |-> "literal", n |-> Len(src), s |-> ""]>> \o src)

\* proto.Unmarshal into prompb.WriteRequest: the receiving side of line 100.
\* A field that is absent keeps its zero value.
RECURSIVE UnmarshalLabel(_, _)
UnmarshalLabel(toks, acc) ==
  IF toks = <<>> THEN acc
  ELSE UnmarshalLabel(SubSeq(toks, 3, Len(toks)),
                      IF toks[1].n = 1 THEN [acc EXCEPT !.Name = toks[2].s]
                      ELSE [acc EXCEPT !.Value = toks[2].s])

RECURSIVE UnmarshalSample(_, _)
UnmarshalSample(toks, acc) ==
  IF toks = <<>> THEN acc
  ELSE UnmarshalSample(SubSeq(toks, 3, Len(toks)),
                       IF toks[1].n = 1 THEN [acc EXCEPT !.Value = toks[2].n]
                       ELSE [acc EXCEPT !.Timestamp = toks[2].n])

RECURSIVE UnmarshalTimeSeries(_, _)
UnmarshalTimeSeries(toks, acc) ==
  IF toks = <<>> THEN acc
  ELSE LET body == SubSeq(toks, 3, 2 + toks[2].n)
           rest == SubSeq(toks, 3 + toks[2].n, Len(toks))
       IN UnmarshalTimeSeries(
            rest,
            IF toks[1].n = 1
            THEN [acc EXCEPT !.Labels =
                    Append(@, UnmarshalLabel(body, [Name |-> "", Value |-> ""]))]
            ELSE [acc EXCEPT !.Samples =
                    Append(@, UnmarshalSample(body, [Value |-> 0, Timestamp |-> 0]))])

RECURSIVE UnmarshalSeries(_, _)
UnmarshalSeries(toks, acc) ==
  IF toks = <<>> THEN acc
  ELSE LET body == SubSeq(toks, 3, 2 + toks[2].n)
           rest == SubSeq(toks, 3 + toks[2].n, Len(toks))
       IN UnmarshalSeries(
            rest,
            Append(acc, UnmarshalTimeSeries(body, [Labels |-> <<>>, Samples |-> <<>>])))

Unmarshal(d) == [Timeseries |-> UnmarshalSeries(d, <<>>)]

\* snappy.Decode: the literal that follows the uncompressed length.
SnappyDecode(b) == IF Len(b) <= 1 THEN <<>> ELSE SubSeq(b, 3, 2 + b[2].n)

(***************************************************************************)
(* The initial state: RemoteWrite has created its ticker and waits.        *)
(***************************************************************************)
NoLocals ==
  /\ ts = <<>>
  /\ tStamp = 0
  /\ fi = 0
  /\ mi = 0
  /\ wr = [Timeseries |-> <<>>]
  /\ data = <<>>
  /\ buf = <<>>
  /\ request = <<>>
  /\ resp = 0
  /\ bodyOpen = FALSE
  /\ closes = 0

\* example/main.go lines 117-120: the background task has been started and
\* no request is being served.
AppStart ==
  /\ bgPc = "work"
  /\ inflight = 0

\* Line 86: the ticker is created; nothing has been received yet.
InitWith(c) ==
  /\ pc = "idle"
  /\ tickC = 0
  /\ now = 0
  /\ started = 0
  /\ clocked = c
  /\ url \in URLs
  /\ running = 0
  /\ failure = "none"
  /\ m = <<>>
  /\ NoLocals
  /\ AppStart

Init == InitWith(TRUE)

\* The same start with the clock and the iteration count left unrecorded,
\* so that the loop can run forever in a finite state space.
LiveInit == InitWith(FALSE)

\* Line 35: createSnappyWithMetricFamily is called with mfs.
BuildInit ==
  /\ pc = "build"
  /\ tickC = 0
  /\ now = 0
  /\ started = 0
  /\ clocked = TRUE
  /\ url = ValidURL
  /\ running = 0
  /\ failure = "none"
  /\ m \in Snapshots
  /\ NoLocals
  /\ AppStart

(***************************************************************************)
(* log.Fatalf: the message is logged and os.Exit(1) ends the process, all  *)
(* goroutines with it.                                                     *)
(***************************************************************************)
\* A variant in which a fatal error ends only the goroutine that hit it.
AliveAfterFatal == TRUE

Alive == pc # "terminated"

\* A variant that logs the error and goes on to wait for the next tick.
FatalfLogOnly(kind) ==
  /\ pc' = "idle"
  /\ failure' = kind

Fatalf(kind) ==
  /\ pc' = "terminated"
  /\ failure' = kind

(***************************************************************************)
(* The ticker.                                                             *)
(***************************************************************************)
\* One interval elapses.
TimePasses ==
  /\ Alive
  /\ clocked => now < MaxTime
  /\ now' = IF clocked THEN now + 1 ELSE now

\* A variant whose channel queues every tick.
TickQueued ==
  /\ TimePasses
  /\ tickC' = tickC + 1
  /\ UNCHANGED <<pc, started, running, failure, config, m, builder, payload, http>>

\* Line 86: the ticker sends on its channel of capacity 1 and drops the
\* tick when the channel is full.
Tick ==
  /\ TimePasses
  /\ tickC' = 1
  /\ UNCHANGED <<pc, started, running, failure, config, m, builder, payload, http>>

(***************************************************************************)
(* RemoteWrite: the loop body.                                             *)
(***************************************************************************)
\* A variant that starts an iteration on every tick, whether or not the
\* previous one has ended (the loop body run as its own goroutine).
RecvTickOverlapping ==
  /\ Alive
  /\ tickC = 1
  /\ tickC' = 0
  /\ pc' = "gather"
  /\ started' = IF clocked THEN started + 1 ELSE started
  /\ running' = running + 1
  /\ UNCHANGED <<now, failure, config, m, builder, payload, http>>

\* A variant that runs the first iteration at once, before the first tick.
RecvTickAtStart ==
  /\ pc = "idle"
  /\ tickC = 1 \/ started = 0
  /\ tickC' = 0
  /\ pc' = "gather"
  /\ started' = IF clocked THEN started + 1 ELSE started
  /\ running' = running + 1
  /\ UNCHANGED <<now, failure, config, m, builder, payload, http>>

\* Line 89: for range ticker.C receives a tick.
RecvTick ==
  /\ pc = "idle"
  /\ tickC = 1
  /\ tickC' = 0
  /\ pc' = "gather"
  /\ started' = IF clocked THEN started + 1 ELSE started
  /\ running' = running + 1
  /\ UNCHANGED <<now, failure, config, m, builder, payload, http>>

\* Line 90: Gather returns the families.
GatherOk ==
  /\ pc = "gather"
  /\ \E s \in GatherSnapshots : m' = s
  /\ pc' = "build"
  /\ UNCHANGED <<sched, failure, config, builder, payload, http>>

\* A variant that logs the gather error and carries on with no families.
GatherFailContinue ==
  /\ pc = "gather"
  /\ failure' = "gather"
  /\ pc' = "build"
  /\ UNCHANGED <<sched, config, m, builder, payload, http>>

\* Lines 91-93: Gather returns an error.
GatherFail ==
  /\ pc = "gather"
  /\ Fatalf("gather")
  /\ UNCHANGED <<sched, config, m, builder, payload, http>>

(***************************************************************************)
(* createSnappyWithMetricFamily.                                           *)
(***************************************************************************)
\* Lines 36-37: ts is declared, the timestamp is taken.
Entry ==
  /\ pc = "build"
  /\ ts' = <<>>
  /\ tStamp' = now
  /\ fi' = 1
  /\ mi' = 1
  /\ pc' = "loop"
  /\ UNCHANGED <<sched, failure, config, m, payload, http>>

\* Lines 39-40: the metrics of the family in turn are exhausted.
NextFamily ==
  /\ pc = "loop"
  /\ fi <= Len(m)
  /\ mi > Len(m[fi].Metric)
  /\ fi' = fi + 1
  /\ mi' = 1
  /\ UNCHANGED <<pc, sched, failure, config, m, ts, tStamp, payload, http>>

\* A variant that leaves the inner loop after a family's first metric.
BuildSeriesFirstOnly ==
  /\ pc = "loop"
  /\ fi <= Len(m)
  /\ mi <= Len(m[fi].Metric)
  /\ m[fi].Type \in KnownTypes
  /\ ts' = Append(ts, TimeSeriesOf(m[fi], m[fi].Metric[mi], tStamp))
  /\ mi' = Len(m[fi].Metric) + 1
  /\ UNCHANGED <<pc, sched, failure, config, m, tStamp, fi, payload, http>>

\* A variant that reads the clock for every sample.
BuildSeriesStampEach ==
  /\ pc = "loop"
  /\ fi <= Len(m)
  /\ mi <= Len(m[fi].Metric)
  /\ m[fi].Type \in KnownTypes
  /\ ts' = Append(ts, TimeSeriesOf(m[fi], m[fi].Metric[mi], now))
  /\ mi' = mi + 1
  /\ UNCHANGED <<pc, sched, failure, config, m, tStamp, fi, payload, http>>

\* A variant that puts each new series in front of those built before.
BuildSeriesPrepend ==
  /\ pc = "loop"
  /\ fi <= Len(m)
  /\ mi <= Len(m[fi].Metric)
  /\ m[fi].Type \in KnownTypes
  /\ ts' = <<TimeSeriesOf(m[fi], m[fi].Metric[mi], tStamp)>> \o ts
  /\ mi' = mi + 1
  /\ UNCHANGED <<pc, sched, failure, config, m, tStamp, fi, payload, http>>

\* Lines 41-77 for a metric of a family whose type the switch lists.
BuildSeries ==
  /\ pc = "loop"
  /\ fi <= Len(m)
  /\ mi <= Len(m[fi].Metric)
  /\ m[fi].Type \in KnownTypes
  /\ ts' = Append(ts, TimeSeriesOf(m[fi], m[fi].Metric[mi], tStamp))
  /\ mi' = mi + 1
  /\ UNCHANGED <<pc, sched, failure, config, m, tStamp, fi, payload, http>>

\* Lines 65-66: the default case of the switch.
UnknownType ==
  /\ pc = "loop"
  /\ fi <= Len(m)
  /\ mi <= Len(m[fi].Metric)
  /\ m[fi].Type \notin KnownTypes
  /\ Fatalf("unknown_type")
  /\ UNCHANGED <<sched, config, m, builder, payload, http>>

\* A variant whose caller skips the rest of the iteration when no series
\* was built.
ReturnSkipEmpty ==
  /\ pc = "loop"
  /\ fi > Len(m)
  /\ wr' = [Timeseries |-> ts]
  /\ ts' = <<>>
  /\ tStamp' = 0
  /\ fi' = 0
  /\ mi' = 0
  /\ pc' = IF ts = <<>> THEN "idle" ELSE "marshal"
  /\ m' = IF ts = <<>> THEN <<>> ELSE m
  /\ running' = IF ts = <<>> THEN running - 1 ELSE running
  /\ UNCHANGED <<tickC, now, started, failure, config, data, buf, http>>

\* Lines 81-82 and 95-98: the families are exhausted; the WriteRequest is
\* returned with a nil error and the function's variables go out of scope.
Return ==
  /\ pc = "loop"
  /\ fi > Len(m)
  /\ wr' = [Timeseries |-> ts]
  /\ ts' = <<>>
  /\ tStamp' = 0
  /\ fi' = 0
  /\ mi' = 0
  /\ pc' = "marshal"
  /\ UNCHANGED <<sched, failure, config, m, data, buf, http>>

(***************************************************************************)
(* RemoteWrite: serialization, compression, delivery.                      *)
(***************************************************************************)
\* Line 100.
MarshalOk ==
  /\ pc = "marshal"
  /\ data' = Marshal(wr)
  /\ pc' = "compress"
  /\ UNCHANGED <<sched, failure, config, m, builder, wr, buf, http>>

\* Lines 101-103.
MarshalFail ==
  /\ pc = "marshal"
  /\ Fatalf("marshal")
  /\ UNCHANGED <<sched, config, m, builder, payload, http>>

\* Lines 105-106.
Compress ==
  /\ pc = "compress"
  /\ buf' = SnappyEncode(data)
  /\ pc' = "send"
  /\ UNCHANGED <<sched, failure, config, m, builder, wr, data, http>>

\* Lines 18-21 and 109-111: http.NewRequest rejects the URL.
NewRequestFail ==
  /\ pc = "send"
  /\ url # ValidURL
  /\ Fatalf("transport")
  /\ UNCHANGED <<sched, config, m, builder, payload, http>>

\* A variant that posts the serialized bytes without compressing them.
SendUncompressed ==
  /\ pc = "send"
  /\ url = ValidURL
  /\ request' = Append(request,
                       [Method |-> "POST", URL |-> url, ContentEncoding |-> "snappy",
                        ContentType |-> "application/x-protobuf", Body |-> data])
  /\ pc' = "await"
  /\ UNCHANGED <<sched, failure, config, m, builder, payload, resp, bodyOpen, closes>>

\* Lines 18-27: the request is built and client.Do sends it.
Send ==
  /\ pc = "send"
  /\ url = ValidURL
  /\ request' = Append(request,
                       [Method |-> "POST", URL |-> url, ContentEncoding |-> "snappy",
                        ContentType |-> "application/x-protobuf", Body |-> buf])
  /\ pc' = "await"
  /\ UNCHANGED <<sched, failure, config, m, builder, payload, resp, bodyOpen, closes>>

\* Lines 27-30 and 109-111: client.Do returns an error.
DoFail ==
  /\ pc = "await"
  /\ Fatalf("transport")
  /\ UNCHANGED <<sched, config, m, builder, payload, http>>

\* Lines 27-32: client.Do returns a response.
DoOk ==
  /\ pc = "await"
  /\ \E st \in Statuses : resp' = st
  /\ bodyOpen' = TRUE
  /\ pc' = "status"
  /\ UNCHANGED <<sched, failure, config, m, builder, payload, request, closes>>

\* A variant that goes to the fatal log without closing the body.
CloseRejectedLeak ==
  /\ pc = "status"
  /\ resp # StatusOK
  /\ pc' = "rejected"
  /\ UNCHANGED <<sched, failure, config, m, builder, payload, http>>

\* Lines 113-114: a status other than 200; the body is closed.
CloseRejected ==
  /\ pc = "status"
  /\ resp # StatusOK
  /\ bodyOpen' = FALSE
  /\ closes' = closes + 1
  /\ pc' = "rejected"
  /\ UNCHANGED <<sched, failure, config, m, builder, payload, request, resp>>

\* A variant that sends the payload again after a rejected delivery.
FatalRejectedRetry ==
  /\ pc = "rejected"
  /\ pc' = "send"
  /\ UNCHANGED <<sched, failure, config, m, builder, payload, http>>

\* Line 115.
FatalRejected ==
  /\ pc = "rejected"
  /\ Fatalf("status")
  /\ UNCHANGED <<sched, config, m, builder, payload, http>>

\* Lines 113 and 118: status 200; the body is closed.
CloseOk ==
  /\ pc = "status"
  /\ resp = StatusOK
  /\ bodyOpen' = FALSE
  /\ closes' = closes + 1
  /\ pc' = "logok"
  /\ UNCHANGED <<sched, failure, config, m, builder, payload, request, resp>>

\* A variant that leaves the loop after the first successful delivery.
LogOkReturn ==
  /\ pc = "logok"
  /\ pc' = "returned"
  /\ running' = running - 1
  /\ UNCHANGED <<tickC, now, started, failure, config, m, builder, payload, http>>

\* A variant whose snapshot, WriteRequest, bytes, buffer and response live
\* outside the loop and keep their contents into the next iteration.
LogOkKeepsLocals ==
  /\ pc = "logok"
  /\ pc' = "idle"
  /\ running' = running - 1
  /\ UNCHANGED <<tickC, now, started, failure, config, m, builder, payload, http>>

\* Lines 119-121: success is logged and the loop body ends; its variables
\* go out of scope.
LogOk ==
  /\ pc = "logok"
  /\ pc' = "idle"
  /\ running' = running - 1
  /\ m' = <<>>
  /\ wr' = [Timeseries |-> <<>>]
  /\ data' = <<>>
  /\ buf' = <<>>
  /\ request' = <<>>
  /\ resp' = 0
  /\ closes' = 0
  /\ UNCHANGED <<tickC, now, started, failure, config, builder, bodyOpen>>

Pipeline ==
  \/ RecvTick
  \/ GatherOk
  \/ GatherFail
  \/ Entry
  \/ NextFamily
  \/ BuildSeries
  \/ UnknownType
  \/ Return
  \/ MarshalOk
  \/ MarshalFail
  \/ Compress
  \/ NewRequestFail
  \/ Send
  \/ DoFail
  \/ DoOk
  \/ CloseRejected
  \/ FatalRejected
  \/ CloseOk
  \/ LogOk

Next == Tick \/ Pipeline

Spec == Init /\ [][Next]_vars

\* The ticker fires every interval and the goroutine of RemoteWrite is
\* scheduled; the endpoint answers or the transport gives up.
LiveSpec == LiveInit /\ [][Next]_vars /\ WF_vars(Tick) /\ WF_vars(Pipeline)

\* Time passing during a direct call of createSnappyWithMetricFamily.
Clock ==
  /\ TimePasses
  /\ now < MaxCallTime
  /\ UNCHANGED <<pc, tickC, started, running, failure, config, m, builder, payload, http>>

BuildNext == Clock \/ Entry \/ NextFamily \/ BuildSeries \/ UnknownType \/ Return

BuildSpec == BuildInit /\ [][BuildNext]_vars

\* A direct call of createSnappyWithMetricFamily followed by lines 100-106:
\* the WriteRequest is serialized and compressed.
CodecNext == BuildNext \/ MarshalOk \/ Compress

CodecSpec == BuildInit /\ [][CodecNext]_vars

(***************************************************************************)
(* The example program (example/main.go): RemoteWrite runs as a goroutine  *)
(* next to the periodic background task and the HTTP server.               *)
(***************************************************************************)
\* example/main.go lines 89-104: the background task sleeps, then updates
\* its four metrics.
BgWork ==
  /\ Alive
  /\ bgPc = "work"
  /\ bgPc' = "wait"
  /\ UNCHANGED <<pc, sched, failure, clocked, url, inflight, m, builder, payload, http>>

\* example/main.go line 106: the background task receives from bgTicker.C.
BgRecv ==
  /\ Alive
  /\ bgPc = "wait"
  /\ bgPc' = "work"
  /\ UNCHANGED <<pc, sched, failure, clocked, url, inflight, m, builder, payload, http>>

\* example/main.go lines 34-35: the server hands a request to a handler,
\* which starts its timer.
HandleStart ==
  /\ Alive
  /\ inflight < MaxInflight
  /\ inflight' = inflight + 1
  /\ UNCHANGED <<pc, sched, failure, clocked, url, bgPc, m, builder, payload, http>>

\* example/main.go lines 36-37: the handler writes its answer and observes
\* the duration.
HandleEnd ==
  /\ Alive
  /\ inflight > 0
  /\ inflight' = inflight - 1
  /\ UNCHANGED <<pc, sched, failure, clocked, url, bgPc, m, builder, payload, http>>

\* example/main.go line 124: ListenAndServe returns an error and log.Fatal
\* ends the process.
ListenFail ==
  /\ Alive
  /\ Fatalf("listen")
  /\ UNCHANGED <<sched, config, m, builder, payload, http>>

AppNext == Next \/ BgWork \/ BgRecv \/ HandleStart \/ HandleEnd \/ ListenFail

\* example/main.go line 122: go prw.RemoteWrite(...), with the goroutines
\* interleaved in every way.
AppSpec == LiveInit /\ [][AppNext]_vars

(***************************************************************************)
(* Properties.                                                             *)
(***************************************************************************)
\* C1: iterations never overlap. At most one pipeline iteration is in
\* progress in every reachable state: none while the loop waits for a tick,
\* exactly one from the moment a tick is received until the iteration has
\* logged its success or ended the process, however many ticks fire in
\* between.
C1_NoOverlap ==
  /\ running \in {0, 1}
  /\ pc = "idle" => running = 0
  /\ pc \notin {"idle", "terminated"} => running = 1
  /\ tickC \in {0, 1}

\* The first iteration's delivery has been blocked for at least two
\* intervals, a tick is waiting, and the second iteration has not started.
C1_Witness ==
  /\ pc = "await"
  /\ started = 1
  /\ now >= 3
  /\ tickC = 1

\* C2: a response with a status other than 200 ends the process without a
\* retry. From the moment a non-200 response is held, the loop is only at
\* the status check, at the fatal log or terminated, exactly one request has
\* been sent in the iteration, and once the rejection is logged nothing
\* changes any more (no further request).
C2_NoRetry ==
  /\ [](resp \notin {0, StatusOK} =>
          /\ pc \in {"status", "rejected", "terminated"}
          /\ Len(request) = 1)
  /\ [](failure = "status" => pc = "terminated" /\ resp \notin {0, StatusOK})
  /\ [][failure = "status" => UNCHANGED vars]_vars

\* The endpoint answered 503 and the process has ended.
C2_Witness ==
  /\ failure = "status"
  /\ resp = 503
  /\ Len(request) = 1

\* Whether a snapshot holds a family whose type the switch does not list.
HasUnknownType(mfs) == \E i \in 1..Len(mfs) : mfs[i].Type \notin KnownTypes

\* C3 (as claimed): whenever the gathered snapshot holds a family of an
\* unrecognized type, whatever the number of its metrics and wherever it
\* sits, the iteration fails before any network call: no HTTP request is
\* sent in that iteration.
C3_UnknownTypeIsFatal == HasUnknownType(m) => request = <<>>

\* C4: Terminated is absorbing and is where every failure leads. A failure
\* has been logged exactly when the process is terminated, and in the
\* terminated state no step is taken: no stage runs, no tick is received or
\* buffered, and the loop is never idle or running again.
C4_TerminatedAbsorbing ==
  /\ [](failure # "none" <=> pc = "terminated")
  /\ [][pc = "terminated" => UNCHANGED vars]_vars

\* The process ended on a transport error while a tick was waiting in the
\* channel and the clock could still run.
C4_Witness ==
  /\ pc = "terminated"
  /\ failure = "transport"
  /\ tickC = 1
  /\ now < MaxTime

\* Whether every family of a snapshot has a type the switch lists.
AllKnown(mfs) == \A i \in 1..Len(mfs) : mfs[i].Type \in KnownTypes

RECURSIVE TotalMetrics(_)
TotalMetrics(mfs) ==
  IF mfs = <<>> THEN 0 ELSE Len(Head(mfs).Metric) + TotalMetrics(Tail(mfs))

\* The places <<family, metric>> of a snapshot's metrics, families in list
\* order and each family's metrics in their order.
RECURSIVE PlacesFrom(_, _)
PlacesFrom(mfs, i) ==
  IF i > Len(mfs) THEN <<>>
  ELSE [j \in 1..Len(mfs[i].Metric) |-> <<i, j>>] \o PlacesFrom(mfs, i + 1)

Places(mfs) == PlacesFrom(mfs, 1)

\* The series built so far in the running call, or those of the returned
\* WriteRequest.
Built == IF pc = "loop" THEN ts ELSE wr.Timeseries

\* C5: for a snapshot whose families all have a recognized type and that
\* holds N metrics in all, createSnappyWithMetricFamily does not fail and
\* the WriteRequest it returns holds exactly N TimeSeries.
C5_OneSeriesPerMetric ==
  AllKnown(m) =>
    /\ failure = "none"
    /\ pc = "marshal" => Len(wr.Timeseries) = TotalMetrics(m)

\* A snapshot of two families with three metrics has been converted.
C5_Witness ==
  /\ pc = "marshal"
  /\ AllKnown(m)
  /\ Len(m) = 2
  /\ TotalMetrics(m) = 3
  /\ Len(wr.Timeseries) = 3

\* C6: every TimeSeries built has __name__ = <family name> as its first
\* label and after it exactly the labels of the metric it was built from, in
\* the metric's order.
C6_NameLabelFirst ==
  /\ Len(Built) <= Len(Places(m))
  /\ \A i \in 1..Len(Built) :
       LET mf == m[Places(m)[i][1]]
           mm == mf.Metric[Places(m)[i][2]]
       IN /\ Built[i].Labels # <<>>
          /\ Built[i].Labels[1] = [Name |-> "__name__", Value |-> mf.Name]
          /\ Tail(Built[i].Labels) = mm.Label

\* A metric of family "up" with the labels b, a (in this order) has been
\* converted.
C6_Witness ==
  /\ pc = "marshal"
  /\ \E i \in 1..Len(wr.Timeseries) :
       /\ wr.Timeseries[i].Labels[1].Value = "up"
       /\ Len(wr.Timeseries[i].Labels) = 3
       /\ wr.Timeseries[i].Labels[2].Name = "b"
       /\ wr.Timeseries[i].Labels[3].Name = "a"

\* C7: all samples of one WriteRequest carry the same timestamp, which is
\* the clock read once on entry of the series builder (after the gather has
\* returned, before the first family is visited) and does not change while
\* the families and metrics are traversed, although the clock moves on.
C7_SingleTimestamp ==
  /\ [](pc = "loop" => \A i \in 1..Len(ts) : ts[i].Samples[1].Timestamp = tStamp)
  /\ [](\A i, j \in 1..Len(wr.Timeseries) :
          wr.Timeseries[i].Samples[1].Timestamp = wr.Timeseries[j].Samples[1].Timestamp)
  /\ [][pc = "build" /\ pc' = "loop" => tStamp' = now /\ ts' = <<>> /\ m' = m]_vars
  /\ [][pc = "loop" /\ pc' = "loop" => tStamp' = tStamp]_vars
  /\ [][pc = "loop" /\ pc' = "marshal" =>
          \A i \in 1..Len(wr'.Timeseries) : wr'.Timeseries[i].Samples[1].Timestamp = tStamp]_vars

\* Two series have been built and the clock has moved on since the
\* timestamp was taken.
C7_Witness ==
  /\ pc = "loop"
  /\ Len(ts) = 2
  /\ now > tStamp
  /\ ts[1].Samples[1].Timestamp = ts[2].Samples[1].Timestamp

\* C8: the value of a metric's sample is the field the family's type
\* designates: the counter value for Counter, the gauge value for Gauge, the
\* untyped value for Untyped, the sample sum of the summary for Summary and
\* of the histogram for Histogram, whatever the metric's other fields hold.
C8_ValueByType ==
  /\ Len(Built) <= Len(Places(m))
  /\ \A i \in 1..Len(Built) :
       LET mf == m[Places(m)[i][1]]
           mm == mf.Metric[Places(m)[i][2]]
           v == Built[i].Samples[1].Value
       IN /\ mf.Type = "COUNTER" => v = mm.Value.Counter.Value
          /\ mf.Type = "GAUGE" => v = mm.Value.Gauge.Value
          /\ mf.Type = "UNTYPED" => v = mm.Value.Untyped.Value
          /\ mf.Type = "SUMMARY" => v = mm.Value.Summary.SampleSum
          /\ mf.Type = "HISTOGRAM" => v = mm.Value.Histogram.SampleSum

\* A Summary metric with every message set (sum 4, count 5, counter 1) and a
\* Gauge metric with only its gauge set have been converted.
C8_Witness ==
  /\ pc = "marshal"
  /\ Len(m) = 2
  /\ m[1].Type = "SUMMARY"
  /\ m[2].Type = "GAUGE"
  /\ Len(m[1].Metric) = 1
  /\ Len(m[2].Metric) = 1
  /\ Len(wr.Timeseries) = 2
  /\ m[1].Metric[1].Value = FullPayload
  /\ wr.Timeseries[1].Samples[1].Value = 4
  /\ m[2].Metric[1].Value = OnlyPayload("GAUGE")
  /\ wr.Timeseries[2].Samples[1].Value = 1

\* C9: the body of every response is closed exactly once in its iteration.
\* It is open only while the status is being checked; it has been closed
\* once when success is logged and when the rejection is logged, and it is
\* closed when the loop is idle again and when the process has ended on a
\* rejected delivery.
C9_BodyReleasedOnce ==
  /\ bodyOpen => pc = "status" /\ resp # 0 /\ closes = 0
  /\ pc \in {"logok", "rejected"} => resp # 0 /\ ~bodyOpen /\ closes = 1
  /\ failure = "status" => resp # 0 /\ ~bodyOpen /\ closes = 1
  /\ pc \in {"idle", "gather"} => ~bodyOpen /\ closes = 0
  /\ resp = 0 => closes = 0

\* The second iteration has started after a delivery whose body was closed.
C9_Witness ==
  /\ pc = "gather"
  /\ started = 2
  /\ ~bodyOpen

\* C10: a successful iteration returns the loop to Idle and the loop goes
\* on for ever. The process terminates only with a failure logged; after
\* the success log the loop is idle again; and, the ticker and the loop
\* being scheduled, every tick received is followed by a completed delivery
\* or by a failure, and deliveries complete infinitely often unless a stage
\* fails.
C10_LoopContinues ==
  /\ [](pc = "terminated" => failure # "none")
  /\ [][pc = "logok" /\ pc' # "logok" => pc' = "idle" /\ running' = 0]_vars
  /\ (pc = "gather") ~> (pc \in {"logok", "terminated"})
  /\ ([]<>(pc = "logok") \/ <>(pc = "terminated"))

\* A delivery has completed and the next tick is already waiting.
C10_Witness ==
  /\ pc = "logok"
  /\ failure = "none"
  /\ tickC = 1

\* C11: every request sent is one HTTP POST to the URL the caller passed,
\* with Content-Encoding snappy and Content-Type application/x-protobuf,
\* whose body is the snappy encoding of the serialization of the
\* WriteRequest built in the same iteration; an iteration that has reached
\* the delivery has sent exactly one request, one that has not has sent
\* none.
C11_OnePostPerIteration ==
  /\ \A i \in 1..Len(request) :
       /\ request[i].Method = "POST"
       /\ request[i].URL = url
       /\ request[i].ContentEncoding = "snappy"
       /\ request[i].ContentType = "application/x-protobuf"
       /\ request[i].Body = SnappyEncode(Marshal(wr))
       /\ SnappyDecode(request[i].Body) = Marshal(wr)
  /\ pc \in {"await", "status", "rejected", "logok"} => Len(request) = 1
  /\ pc \in {"idle", "gather", "build", "loop", "marshal", "compress", "send"} =>
       request = <<>>
  /\ Len(request) <= 1

\* A request carrying one series is in flight.
C11_Witness ==
  /\ pc = "await"
  /\ Len(request) = 1
  /\ Len(wr.Timeseries) = 1
  /\ Len(request[1].Body) > 2

\* C12: serializing a WriteRequest the series builder returned and then
\* deserializing the bytes gives back the same TimeSeries, labels, sample
\* values and timestamps, in the same order; decompressing the payload gives
\* back the serialized bytes.
C12_RoundTrip ==
  /\ pc \in {"compress", "send"} =>
       /\ data = Marshal(wr)
       /\ Unmarshal(data).Timeseries = wr.Timeseries
  /\ pc = "send" => SnappyDecode(buf) = data

\* A WriteRequest whose series has two labels and a sample with timestamp 0
\* (a field that is not written) has been serialized and compressed.
C12_Witness ==
  /\ pc = "send"
  /\ Len(wr.Timeseries) = 1
  /\ Len(wr.Timeseries[1].Labels) = 3
  /\ wr.Timeseries[1].Samples[1].Timestamp = 0
  /\ Unmarshal(SnappyDecode(buf)) = wr

\* The steps one iteration may take, stage by stage: receive the tick,
\* gather, build (entry, loop, return), serialize, compress, deliver (send,
\* await), status check, and from any fallible stage the fatal exit.
StageOrder ==
  { <<"idle", "gather">>, <<"gather", "build">>, <<"build", "loop">>,
    <<"loop", "marshal">>, <<"marshal", "compress">>, <<"compress", "send">>,
    <<"send", "await">>, <<"await", "status">>, <<"status", "rejected">>,
    <<"status", "logok">>, <<"logok", "idle">>,
    <<"gather", "terminated">>, <<"loop", "terminated">>,
    <<"marshal", "terminated">>, <<"send", "terminated">>,
    <<"await", "terminated">>, <<"rejected", "terminated">> }

\* What each stage has produced by the time the loop is at a position.
StageOutputs ==
  /\ pc \in {"idle", "gather"} => m = <<>>
  /\ pc \in {"idle", "gather", "build", "loop"} => wr.Timeseries = <<>>
  /\ pc \in {"idle", "gather", "build", "loop", "marshal"} => data = <<>>
  /\ pc \in {"idle", "gather", "build", "loop", "marshal", "compress"} => buf = <<>>
  /\ pc \in {"idle", "gather", "build", "loop", "marshal", "compress", "send"} =>
       request = <<>>
  /\ pc \in {"idle", "gather", "build", "loop", "marshal", "compress", "send",
             "await"} => resp = 0
  /\ pc \in {"compress", "send", "await", "status", "rejected", "logok"} =>
       data = Marshal(wr)
  /\ pc \in {"send", "await", "status", "rejected", "logok"} =>
       buf = SnappyEncode(data)
  /\ pc \in {"await", "status", "rejected", "logok"} => Len(request) = 1
  /\ pc \in {"status", "rejected", "logok"} => resp \in Statuses

\* C13: within an iteration the stages run in the order gather, build,
\* serialize, compress, deliver, status check, each one only after the
\* earlier ones succeeded; after a gather failure no series has been built
\* and no request has been sent.
C13_StagesInOrder ==
  /\ [][pc' # pc => <<pc, pc'>> \in StageOrder]_vars
  /\ []StageOutputs
  /\ [](failure = "gather" =>
          /\ pc = "terminated"
          /\ ts = <<>> /\ fi = 0
          /\ wr.Timeseries = <<>> /\ data = <<>> /\ buf = <<>>
          /\ request = <<>> /\ resp = 0)
  /\ [](failure \in {"unknown_type", "marshal"} => request = <<>>)

\* The second iteration failed to gather, after a first that went through
\* every stage.
C13_Witness ==
  /\ failure = "gather"
  /\ started = 2
  /\ request = <<>>

\* C14: nothing is carried from one iteration to the next: between
\* iterations no snapshot, series, WriteRequest, bytes or request exists, and
\* the WriteRequest an iteration serializes and sends holds exactly one
\* series per metric of that iteration's own snapshot, with that metric's
\* labels, and nothing else.
C14_NoStateAcrossTicks ==
  /\ pc \in {"idle", "gather"} =>
       /\ m = <<>> /\ ts = <<>> /\ tStamp = 0 /\ fi = 0 /\ mi = 0
       /\ wr.Timeseries = <<>> /\ data = <<>> /\ buf = <<>>
       /\ request = <<>> /\ resp = 0
  /\ pc = "build" => ts = <<>> /\ wr.Timeseries = <<>> /\ request = <<>>
  /\ pc \in {"marshal", "compress", "send", "await", "status", "rejected", "logok"} =>
       /\ Len(wr.Timeseries) = TotalMetrics(m)
       /\ \A i \in 1..Len(wr.Timeseries) :
            LET mf == m[Places(m)[i][1]]
                mm == mf.Metric[Places(m)[i][2]]
            IN /\ wr.Timeseries[i].Labels[1].Value = mf.Name
               /\ Len(wr.Timeseries[i].Labels) = 1 + Len(mm.Label)
               /\ \A j \in 1..Len(mm.Label) :
                    /\ wr.Timeseries[i].Labels[j + 1].Name = mm.Label[j].Name
                    /\ wr.Timeseries[i].Labels[j + 1].Value = mm.Label[j].Value
               /\ Len(wr.Timeseries[i].Samples) = 1
               /\ wr.Timeseries[i].Samples[1].Timestamp >= started
               /\ wr.Timeseries[i].Samples[1].Timestamp <= now
  /\ \A i \in 1..Len(request) : Unmarshal(SnappyDecode(request[i].Body)) = wr

\* The second iteration, after a first that completed, has sent a request
\* with one series.
C14_Witness ==
  /\ started = 2
  /\ pc = "await"
  /\ Len(wr.Timeseries) = 1
  /\ Len(request) = 1
  /\ Unmarshal(SnappyDecode(request[1].Body)).Timeseries = wr.Timeseries

\* C15: the i-th TimeSeries is the one of the i-th metric when the families
\* are taken in list order and each family's metrics in their order: it has
\* that metric's family name and labels and the value its type selects; and
\* while the builder runs, the series built so far are those of the metrics
\* before the loop's position.
C15_SeriesInSnapshotOrder ==
  pc \in {"loop", "marshal"} =>
    /\ Len(Built) <= Len(Places(m))
    /\ \A i \in 1..Len(Built) :
         LET mf == m[Places(m)[i][1]]
             mm == mf.Metric[Places(m)[i][2]]
         IN /\ Built[i].Labels[1].Value = mf.Name
            /\ SubSeq(Built[i].Labels, 2, Len(Built[i].Labels)) = mm.Label
            /\ Built[i].Samples[1].Value = SampleValue(mf.Type, mm)
    /\ pc = "loop" =>
         Len(ts) = Cardinality({i \in 1..Len(Places(m)) :
                                  \/ Places(m)[i][1] < fi
                                  \/ Places(m)[i][1] = fi /\ Places(m)[i][2] < mi})

\* A family of two metrics, the first without labels and the second with
\* one, has been built: the series come in the metrics' order.
C15_Witness ==
  /\ pc = "marshal"
  /\ Len(m) = 1
  /\ Len(m[1].Metric) = 2
  /\ Len(wr.Timeseries) = 2
  /\ Len(wr.Timeseries[1].Labels) = 1
  /\ Len(wr.Timeseries[2].Labels) = 2

\* C16: every TimeSeries built has at least one label and exactly one
\* sample.
C16_OneSampleSomeLabel ==
  \A i \in 1..Len(Built) :
    /\ Len(Built[i].Labels) >= 1
    /\ Len(Built[i].Samples) = 1

\* Three series have been built, each with the name label alone and one
\* sample.
C16_Witness ==
  /\ pc = "marshal"
  /\ Len(wr.Timeseries) = 3
  /\ \A i \in 1..3 : Len(wr.Timeseries[i].Labels) = 1 /\ Len(wr.Timeseries[i].Samples) = 1

\* C17: an iteration starts only by receiving a tick: none has started
\* before the first interval has elapsed, and the iterations started plus
\* the tick still waiting in the channel never exceed the intervals elapsed
\* (the ticker fires once per interval).
C17_StartsOnlyOnTick ==
  /\ started + tickC <= now
  /\ now = 0 => pc = "idle" /\ started = 0 /\ running = 0
  /\ started = 0 => pc = "idle"

\* Three intervals have elapsed and each tick has started an iteration.
C17_Witness ==
  /\ now = 3
  /\ started = 3
  /\ pc = "gather"

\* C19: ticks that fire while an iteration runs are not queued: at most one
\* waits in the channel and the others are dropped, and each start of an
\* iteration takes the one waiting tick and leaves none, so after an
\* iteration that lasted several intervals at most one iteration starts
\* without a new tick.
C19_TicksNotQueued ==
  /\ [](tickC \in {0, 1})
  /\ [][started' # started =>
          /\ started' = started + 1
          /\ tickC = 1
          /\ tickC' = 0
          /\ now' = now]_vars
  /\ [][tickC' > tickC => now' = now + 1]_vars

\* The first iteration lasted through the second and the third tick; the
\* second iteration has started from the one that was kept and no tick is
\* left for a third.
C19_Witness ==
  /\ started = 2
  /\ now = 3
  /\ tickC = 0
  /\ pc = "gather"
  /\ started + tickC < now

\* C18: in the example program a fatal failure of the exporter stops the
\* whole process: once the exporter is terminated, the background task
\* takes no further step (updates no metric) and no handler starts or
\* finishes serving a request, whatever the other goroutines were doing,
\* and nothing else changes either.
C18_FatalStopsProcess ==
  /\ [][pc = "terminated" => UNCHANGED app]_vars
  /\ [][pc = "terminated" => pc' = "terminated" /\ failure' = failure]_vars
  /\ [](pc = "terminated" => failure # "none")

\* The exporter's delivery was rejected while the background task was
\* waiting for its ticker and a request was being served.
C18_Witness ==
  /\ pc = "terminated"
  /\ failure = "status"
  /\ bgPc = "wait"
  /\ inflight = 1

\* C20: an empty snapshot is not skipped. When the snapshot has no family,
\* or only families without metrics, the iteration does not fail in the
\* builder and does not return to waiting early: it goes on to post exactly
\* one request whose body is the compressed serialization of a WriteRequest
\* with no series, and it succeeds or ends the process on the status of
\* the response.
C20_EmptySnapshotIsSent ==
  /\ [](TotalMetrics(m) = 0 => failure # "unknown_type")
  /\ [](TotalMetrics(m) = 0 /\ pc \in {"await", "status", "rejected", "logok"} =>
          /\ wr.Timeseries = <<>>
          /\ Len(request) = 1
          /\ request[1].Method = "POST"
          /\ request[1].Body = SnappyEncode(Marshal([Timeseries |-> <<>>]))
          /\ Unmarshal(SnappyDecode(request[1].Body)).Timeseries = <<>>)
  /\ [](TotalMetrics(m) = 0 /\ pc = "logok" => resp = StatusOK)
  /\ [](TotalMetrics(m) = 0 /\ failure = "status" =>
          resp \notin {0, StatusOK} /\ Len(request) = 1)
  /\ [][pc # "idle" /\ pc' = "idle" =>
          pc = "logok" /\ Len(request) = 1 /\ resp = StatusOK]_vars
  /\ [][pc = "loop" /\ TotalMetrics(m) = 0 /\ pc' # "loop" =>
          pc' = "marshal" /\ wr'.Timeseries = <<>>]_vars

\* Two families without metrics were gathered and the request built from
\* them was answered with 200.
C20_Witness ==
  /\ pc = "logok"
  /\ Len(m) = 2
  /\ TotalMetrics(m) = 0
  /\ Len(request) = 1
  /\ Len(request[1].Body) = 1
  /\ resp = StatusOK

====
